---------------------------- MODULE Spec2Model ----------------------------
(***************************************************************************)
(* The six root-finding routines of ZOF_CLI.py (bisection, regula_falsi,   *)
(* secant, newton_raphson, fixed_point, modified_secant) and their web     *)
(* twins of app.py, as a state machine that runs one call, one loop        *)
(* iteration per step.                                                     *)
(*                                                                         *)
(* Python floats are binary floating-point numbers.  They are modelled by  *)
(* a scaled-down binary format with the same rules as IEEE-754 binary64:   *)
(* every finite value is a whole number of units (the unit is the smallest *)
(* subnormal), a significand has Precision bits, results are rounded to    *)
(* the nearest representable value, ties to the even significand, a result *)
(* beyond MaxFinite overflows to an infinity, and inf-inf, inf*0, inf/inf  *)
(* are NaN.  The two zeros compare equal in every test the code makes and  *)
(* are one value here.                                                     *)
(*                                                                         *)
(* The user's function handle is deterministic and otherwise arbitrary: it *)
(* is a memo table (fm, dfm) that grows by one nondeterministically chosen *)
(* value the first time the code calls the handle at a new point.          *)
(***************************************************************************)
EXTENDS Integers, Sequences, FiniteSets, TLC

\* ------------------------------------------------------------------------
\* Bounds of the model
\* ------------------------------------------------------------------------
\* bits of a significand (53 in binary64)
Precision == 3
\* largest exponent above the subnormal range
EMax == 3
\* 1.0 is 2^OneExp units
OneExp == 4
\* largest max_iter a call is made with
MaxIter == 2

\* ------------------------------------------------------------------------
\* Floating-point values and arithmetic (src: Python float, used by every
\* arithmetic expression of the six routines)
\* ------------------------------------------------------------------------
RECURSIVE Pow2(_)
Pow2(n) == IF n = 0 THEN 1 ELSE 2 * Pow2(n - 1)

One == Pow2(OneExp)
Two == 2 * One
MaxFinite == (Pow2(Precision) - 1) * Pow2(EMax)
Inf == Pow2(Precision + EMax)
NegInf == 0 - Inf
NaN == Inf + 1

Magnitudes == { m * Pow2(e) : m \in 0..(Pow2(Precision) - 1), e \in 0..EMax }
Finite == Magnitudes \cup { 0 - m : m \in Magnitudes }
Floats == Finite \cup {Inf, NegInf, NaN}

IsNaN(x) == x = NaN
IsInf(x) == x = Inf \/ x = NegInf
Sgn(x) == IF x > 0 THEN 1 ELSE IF x < 0 THEN -1 ELSE 0
Mag(n) == IF n < 0 THEN 0 - n ELSE n

\* the exponent at which the quotient n/d has at most Precision bits
RECURSIVE RoundExp(_, _, _)
RoundExp(n, d, e) == IF n < d * Pow2(Precision + e) THEN e ELSE RoundExp(n, d, e + 1)

\* round-half-to-even of n/d, n >= 0, d > 0
HalfEven(n, d) ==
    LET q == n \div d
        r == n % d
    IN  IF 2 * r > d \/ (2 * r = d /\ q % 2 = 1) THEN q + 1 ELSE q

\* the float nearest to the rational num/den (den > 0)
Round(num, den) ==
    LET n == Mag(num)
        e == RoundExp(n, den, 0)
        v == HalfEven(n, den * Pow2(e)) * Pow2(e)
    IN  IF v > MaxFinite THEN Sgn(num) * Inf ELSE Sgn(num) * v

fneg(x) == IF IsNaN(x) THEN NaN ELSE 0 - x

fadd(x, y) ==
    IF IsNaN(x) \/ IsNaN(y) THEN NaN
    ELSE IF IsInf(x) THEN (IF IsInf(y) /\ y # x THEN NaN ELSE x)
    ELSE IF IsInf(y) THEN y
    ELSE Round(x + y, 1)

fsub(x, y) == fadd(x, fneg(y))

fmul(x, y) ==
    IF IsNaN(x) \/ IsNaN(y) THEN NaN
    ELSE IF IsInf(x) \/ IsInf(y)
         THEN (IF x = 0 \/ y = 0 THEN NaN ELSE Sgn(x) * Sgn(y) * Inf)
    ELSE Round(x * y, One)

\* x / y for y # 0; for y = 0 Python raises ZeroDivisionError, which every
\* routine models where it divides
fdiv(x, y) ==
    IF IsNaN(x) \/ IsNaN(y) THEN NaN
    ELSE IF IsInf(x) THEN (IF IsInf(y) THEN NaN ELSE Sgn(x) * Sgn(y) * Inf)
    ELSE IF IsInf(y) THEN 0
    ELSE Round(x * One * Sgn(y), Mag(y))

fabs(x) == IF IsNaN(x) THEN NaN ELSE Mag(x)

\* comparisons: every comparison with a NaN is false
flt(x, y) == ~IsNaN(x) /\ ~IsNaN(y) /\ x < y
fge(x, y) == ~IsNaN(x) /\ ~IsNaN(y) /\ x >= y
feq(x, y) == ~IsNaN(x) /\ ~IsNaN(y) /\ x = y


\* ------------------------------------------------------------------------
\* The call: its arguments, the handles, the frames of the two routines
\* ------------------------------------------------------------------------
VARIABLES
    method,     \* the routine called (ZOF_CLI.py name; app.py runs its twin)
    args,       \* the numeric seeds the call was made with
    tol,        \* tolerance
    max_iter,   \* iteration budget
    fm,         \* the handle f (g for fixed_point): the points called so far
    dfm,        \* the handle df of newton_raphson
    status,     \* ZOF_CLI.py call: "called", "loop", "returned", "raised"
    error,      \* the exception it raised, "none" otherwise
    exit,       \* the return statement taken: "converged", "exhausted", "none"
    loc,        \* its local variables
    iters,      \* its list iters
    ret,        \* what it returned: <<root, err, iters>>, <<>> before and on raise
    calls,      \* handle calls made by the loop iteration that ran last
    wstatus,    \* app.py call: "called", "loop", "returned", "raised"
    werror,     \* the exception it raised, "none" otherwise
    wloc,       \* its local variables
    witers,     \* its list iters
    wret        \* what it returned: [iters, msg]; iters is <<the list>> or, for
                \* None, <<>>; <<>> before it returns

vars == <<method, args, tol, max_iter, fm, dfm, status, error, exit, loc, iters,
          ret, calls, wstatus, werror, wloc, witers, wret>>

Methods == {"bisection", "regula_falsi", "secant", "newton_raphson",
            "fixed_point", "modified_secant"}

\* a value whose product with itself is representable and whose product
\* with the smallest subnormal underflows to zero
Quarter == Pow2(OneExp - 2)
\* values the handles return; -1 and 1 are the smallest subnormals
FVals == {NaN, Inf, 0 - One, 0 - Quarter, -1, 0, 1, Quarter, One}
DFVals == {NaN, 0, 1, One}
Tols == {1, One}

\* the largest power of two
Big == Pow2(Precision + EMax - 1)
\* the gap between 1.0 and the next float
Ulp == Pow2(OneExp - Precision + 1)

\* seeds: an ordinary bracket, a reversed one, one a single ulp wide, one
\* next to the overflow threshold
BracketArgs == { [a |-> 0 - One, b |-> One], [a |-> One, b |-> 0 - One],
                 [a |-> One, b |-> One + Ulp], [a |-> Big, b |-> MaxFinite],
                 [a |-> 0 - One, b |-> 0] }
SecantArgs == { [x0 |-> 0, x1 |-> One], [x0 |-> One, x1 |-> One],
                [x0 |-> One, x1 |-> Two], [x0 |-> MaxFinite, x1 |-> 0 - One] }
PointArgs == { [x0 |-> 0], [x0 |-> One], [x0 |-> MaxFinite] }
ModSecantArgs == { [x0 |-> x, delta |-> d] : x \in {0, One}, d \in {0, One} }

ArgsOf(m) ==
    IF m \in {"bisection", "regula_falsi"} THEN BracketArgs
    ELSE IF m = "secant" THEN SecantArgs
    ELSE IF m = "modified_secant" THEN ModSecantArgs
    ELSE PointArgs

EmptyMemo == [x \in {} |-> 0]

\* the memo tables a call of the handle at x can leave: the handle is
\* deterministic, so a point called before keeps its value
Call(m, x, V) == IF x \in DOMAIN m THEN {m} ELSE { m @@ (x :> v) : v \in V }

Init ==
    /\ method \in Methods
    /\ args \in ArgsOf(method)
    /\ tol \in Tols
    /\ max_iter \in 1..MaxIter
    /\ fm = EmptyMemo
    /\ dfm = EmptyMemo
    /\ status = "called"
    /\ error = "none"
    /\ exit = "none"
    /\ loc = <<>>
    /\ iters = <<>>
    /\ ret = <<>>
    /\ calls = 0
    /\ wstatus = "called"
    /\ werror = "none"
    /\ wloc = <<>>
    /\ witers = <<>>
    /\ wret = <<>>

\* an outcome of a step of the ZOF_CLI.py routine
Out(st, er, ex, L, it, r, n, m, dm) ==
    [status |-> st, error |-> er, exit |-> ex, loc |-> L, iters |-> it,
     ret |-> r, calls |-> n, fm |-> m, dfm |-> dm]
\* an outcome of a step of the app.py routine
WOut(st, er, L, it, r, m, dm) ==
    [status |-> st, error |-> er, loc |-> L, iters |-> it, ret |-> r, fm |-> m, dfm |-> dm]
\* return iters, None
WOk(it) == [iters |-> <<it>>, msg |-> "None"]
\* return None, msg
WFail(msg) == [iters |-> <<>>, msg |-> msg]

\* a loop that runs one iteration too many: range(1, max_iter+2)
RangeExhausted_OneMore(i, n) == i = n + 1
\* for i in range(1, max_iter+1): the iteration that ran was the last one
RangeExhausted(i, n) == i = n

\* ------------------------------------------------------------------------
\* ZOF_CLI.py: bisection
\* ------------------------------------------------------------------------
\* if f(a) * f(b) >= 0: raise ValueError
BracketRejected(fa, fb) == fge(fmul(fa, fb), 0)
\* a precedence slip: a + b/2.0
Midpoint_Precedence(a, b) == fadd(a, fdiv(b, Two))
\* c = (a + b)/2.0
Midpoint(a, b) == fdiv(fadd(a, b), Two)
\* the full width for the half: abs(b-a)
HalfWidth_Full(a, b) == fabs(fsub(b, a))
\* err = abs(b-a)/2.0
HalfWidth(a, b) == fdiv(fabs(fsub(b, a)), Two)
\* if abs(fc) < tol or err < tol
BisectionConverged(fc, err, t) == flt(fabs(fc), t) \/ flt(err, t)
\* if f(a) * fc < 0: b = c   else: a = c
BisectionKeepsA(fa, fc) == flt(fmul(fa, fc), 0)

\* handle calls of one iteration: f(c), and f(a) unless it returns first
BisectionCalls(converged) == IF converged THEN 1 ELSE 2

bisection_entry(A, m) ==
    { IF BracketRejected(m2[A.a], m2[A.b])
      THEN Out("raised", "InvalidBracket", "none", <<>>, <<>>, <<>>, 0, m2, dfm)
      ELSE Out("loop", "none", "none", [i |-> 0, a |-> A.a, b |-> A.b],
               <<>>, <<>>, 0, m2, dfm)
      : m2 \in UNION { Call(m1, A.b, FVals) : m1 \in Call(m, A.a, FVals) } }

bisection_iter(L, it, m) ==
    LET i == L.i + 1
        c == Midpoint(L.a, L.b)
        err == HalfWidth(L.a, L.b)
    IN  { LET fc == m2[c]
              it2 == Append(it, <<i, L.a, L.b, c, fc, err>>)
              keep == BisectionKeepsA(m2[L.a], fc)
              a2 == IF keep THEN L.a ELSE c
              b2 == IF keep THEN c ELSE L.b
          IN  IF BisectionConverged(fc, err, tol)
              THEN Out("returned", "none", "converged", [i |-> i, a |-> L.a, b |-> L.b],
                       it2, <<c, err, it2>>, BisectionCalls(TRUE), m2, dfm)
              ELSE IF RangeExhausted(i, max_iter)
              THEN Out("returned", "none", "exhausted", [i |-> i, a |-> a2, b |-> b2],
                       it2, <<Midpoint(a2, b2), HalfWidth(a2, b2), it2>>, BisectionCalls(FALSE), m2, dfm)
              ELSE Out("loop", "none", "none", [i |-> i, a |-> a2, b |-> b2],
                       it2, <<>>, BisectionCalls(FALSE), m2, dfm)
          : m2 \in UNION { Call(m1, L.a, FVals) : m1 \in Call(m, c, FVals) } }

\* ------------------------------------------------------------------------
\* ZOF_CLI.py: regula_falsi
\* ------------------------------------------------------------------------
\* x = (a*fb - b*fa)/(fb - fa), the divisor not zero
FalsePosition(a, b, fa, fb) ==
    fdiv(fsub(fmul(a, fb), fmul(b, fa)), fsub(fb, fa))
\* if abs(fx) < tol or err < tol
RegulaConverged(fx, err, t) == flt(fabs(fx), t) \/ flt(err, t)
\* if fa * fx < 0: b, fb = x, fx   else: a, fa = x, fx
RegulaKeepsA(fa, fx) == flt(fmul(fa, fx), 0)

\* handle calls of one iteration: f(x), none when the division raises
RegulaCalls(divided) == IF divided THEN 1 ELSE 0

regula_falsi_entry(A, m) ==
    { IF BracketRejected(m2[A.a], m2[A.b])
      THEN Out("raised", "InvalidBracket", "none", <<>>, <<>>, <<>>, 0, m2, dfm)
      ELSE Out("loop", "none", "none",
               [i |-> 0, a |-> A.a, b |-> A.b, fa |-> m2[A.a], fb |-> m2[A.b],
                x_old |-> A.a],
               <<>>, <<>>, 0, m2, dfm)
      : m2 \in UNION { Call(m1, A.b, FVals) : m1 \in Call(m, A.a, FVals) } }

regula_falsi_iter(L, it, m) ==
    LET i == L.i + 1 IN
    IF fsub(L.fb, L.fa) = 0
    THEN \* float division by zero
         { Out("raised", "ZeroDivisionError", "none", [L EXCEPT !.i = i],
               it, <<>>, RegulaCalls(FALSE), m, dfm) }
    ELSE LET x == FalsePosition(L.a, L.b, L.fa, L.fb)
             err == fabs(fsub(x, L.x_old))
         IN  { LET fx == m2[x]
                   it2 == Append(it, <<i, L.a, L.b, x, fx, err>>)
                   keep == RegulaKeepsA(L.fa, fx)
                   L2 == [i |-> i,
                          a |-> IF keep THEN L.a ELSE x,
                          b |-> IF keep THEN x ELSE L.b,
                          fa |-> IF keep THEN L.fa ELSE fx,
                          fb |-> IF keep THEN fx ELSE L.fb,
                          x_old |-> x]
               IN  IF RegulaConverged(fx, err, tol)
                   THEN Out("returned", "none", "converged", [L EXCEPT !.i = i],
                            it2, <<x, err, it2>>, RegulaCalls(TRUE), m2, dfm)
                   ELSE IF RangeExhausted(i, max_iter)
                   THEN Out("returned", "none", "exhausted", L2, it2,
                            <<x, err, it2>>, RegulaCalls(TRUE), m2, dfm)
                   ELSE Out("loop", "none", "none", L2, it2, <<>>, RegulaCalls(TRUE), m2, dfm)
               : m2 \in Call(m, x, FVals) }

\* ------------------------------------------------------------------------
\* ZOF_CLI.py: secant
\* ------------------------------------------------------------------------
\* the guard left out
SecantDenominatorZero_Unguarded(f0, f1) == FALSE
\* if (f1 - f0) == 0: raise ValueError
SecantDenominatorZero(f0, f1) == feq(fsub(f1, f0), 0)
\* x2 = x1 - f1*(x1-x0)/(f1-f0)
SecantUpdate(x0, x1, f0, f1) ==
    fsub(x1, fdiv(fmul(f1, fsub(x1, x0)), fsub(f1, f0)))
\* if abs(f(x2)) < tol or err < tol
SecantConverged(fx2, err, t) == flt(fabs(fx2), t) \/ flt(err, t)

\* f(x2) kept from the record instead of called again
SecantCalls_Cached(aborted) == IF aborted THEN 2 ELSE 3
\* handle calls of one iteration: f(x0), f(x1), then f(x2) for the record
\* and f(x2) again for the test
SecantCalls(aborted) == IF aborted THEN 2 ELSE 4

secant_entry(A, m) ==
    { Out("loop", "none", "none", [i |-> 0, x0 |-> A.x0, x1 |-> A.x1],
          <<>>, <<>>, 0, m, dfm) }

secant_iter(L, it, m) ==
    LET i == L.i + 1 IN
    UNION {
      LET f0 == m2[L.x0]
          f1 == m2[L.x1]
      IN  IF SecantDenominatorZero(f0, f1)
          THEN { Out("raised", "ZeroDenominator", "none", [L EXCEPT !.i = i],
                     it, <<>>, SecantCalls(TRUE), m2, dfm) }
          ELSE IF fsub(f1, f0) = 0
          THEN \* float division by zero
               { Out("raised", "ZeroDivisionError", "none", [L EXCEPT !.i = i],
                     it, <<>>, SecantCalls(TRUE), m2, dfm) }
          ELSE LET x2 == SecantUpdate(L.x0, L.x1, f0, f1)
                   err == fabs(fsub(x2, L.x1))
               IN  { LET it2 == Append(it, <<i, L.x0, L.x1, x2, m3[x2], err>>)
                     IN  IF SecantConverged(m3[x2], err, tol)
                         THEN Out("returned", "none", "converged",
                                  [L EXCEPT !.i = i], it2, <<x2, err, it2>>,
                                  SecantCalls(FALSE), m3, dfm)
                         ELSE IF RangeExhausted(i, max_iter)
                         THEN Out("returned", "none", "exhausted",
                                  [i |-> i, x0 |-> L.x1, x1 |-> x2], it2,
                                  <<x2, err, it2>>, SecantCalls(FALSE), m3, dfm)
                         ELSE Out("loop", "none", "none",
                                  [i |-> i, x0 |-> L.x1, x1 |-> x2], it2, <<>>,
                                  SecantCalls(FALSE), m3, dfm)
                     : m3 \in Call(m2, x2, FVals) }
      : m2 \in UNION { Call(m1, L.x1, FVals) : m1 \in Call(m, L.x0, FVals) } }

\* ------------------------------------------------------------------------
\* ZOF_CLI.py: newton_raphson
\* ------------------------------------------------------------------------
\* if dfx == 0: raise ValueError
DerivativeZero(dfx) == feq(dfx, 0)
\* x_new = x - fx/dfx
NewtonUpdate(x, fx, dfx) == fsub(x, fdiv(fx, dfx))
\* the test on the function value left out
NewtonConverged_StepOnly(fx, err, t) == flt(err, t)
\* if abs(fx) < tol or err < tol
NewtonConverged(fx, err, t) == flt(fabs(fx), t) \/ flt(err, t)

\* handle calls of one iteration: f(x) and df(x)
NewtonCalls == 2

newton_raphson_entry(A, m) ==
    { Out("loop", "none", "none", [i |-> 0, x |-> A.x0], <<>>, <<>>, 0, m, dfm) }

newton_raphson_iter(L, it, m, dm) ==
    LET i == L.i + 1 IN
    UNION {
      { LET fx == m2[L.x]
            dfx == dm2[L.x]
        IN  IF DerivativeZero(dfx)
            THEN Out("raised", "ZeroDerivative", "none", [L EXCEPT !.i = i],
                     it, <<>>, NewtonCalls, m2, dm2)
            ELSE IF dfx = 0
            THEN \* float division by zero
                 Out("raised", "ZeroDivisionError", "none", [L EXCEPT !.i = i],
                     it, <<>>, NewtonCalls, m2, dm2)
            ELSE LET x_new == NewtonUpdate(L.x, fx, dfx)
                     err == fabs(fsub(x_new, L.x))
                     it2 == Append(it, <<i, L.x, fx, dfx, x_new, err>>)
                 IN  IF NewtonConverged(fx, err, tol)
                     THEN Out("returned", "none", "converged", [L EXCEPT !.i = i],
                              it2, <<x_new, err, it2>>, NewtonCalls, m2, dm2)
                     ELSE IF RangeExhausted(i, max_iter)
                     THEN \* x = x_new, then return x, err, iters
                          Out("returned", "none", "exhausted",
                              [i |-> i, x |-> x_new], it2, <<x_new, err, it2>>,
                              NewtonCalls, m2, dm2)
                     ELSE Out("loop", "none", "none", [i |-> i, x |-> x_new],
                              it2, <<>>, NewtonCalls, m2, dm2)
        : dm2 \in Call(dm, L.x, DFVals) }
      : m2 \in Call(m, L.x, FVals) }

\* ------------------------------------------------------------------------
\* ZOF_CLI.py: fixed_point
\* ------------------------------------------------------------------------
\* <= for <
FixedPointConverged_Inclusive(err, t) == fge(t, err)
\* if err < tol
FixedPointConverged(err, t) == flt(err, t)

\* handle calls of one iteration: g(x)
FixedPointCalls == 1

fixed_point_entry(A, m) ==
    { Out("loop", "none", "none", [i |-> 0, x |-> A.x0], <<>>, <<>>, 0, m, dfm) }

fixed_point_iter(L, it, m) ==
    LET i == L.i + 1 IN
    { LET x_new == m2[L.x]
          err == fabs(fsub(x_new, L.x))
          it2 == Append(it, <<i, L.x, x_new, err>>)
      IN  IF FixedPointConverged(err, tol)
          THEN Out("returned", "none", "converged", [L EXCEPT !.i = i], it2,
                   <<x_new, err, it2>>, FixedPointCalls, m2, dfm)
          ELSE IF RangeExhausted(i, max_iter)
          THEN Out("returned", "none", "exhausted", [i |-> i, x |-> x_new], it2,
                   <<x_new, err, it2>>, FixedPointCalls, m2, dfm)
          ELSE Out("loop", "none", "none", [i |-> i, x |-> x_new], it2, <<>>,
                   FixedPointCalls, m2, dfm)
      : m2 \in Call(m, L.x, FVals) }

\* ------------------------------------------------------------------------
\* ZOF_CLI.py: modified_secant
\* ------------------------------------------------------------------------
\* x + delta*x
Perturbed(x, delta) == fadd(x, fmul(delta, x))
\* if denom == 0: raise ValueError
ModSecantDenominatorZero(denom) == feq(denom, 0)
\* x_new = x - (delta * x * f_x) / denom
ModSecantUpdate(x, delta, f_x, denom) ==
    fsub(x, fdiv(fmul(fmul(delta, x), f_x), denom))
\* if abs(f_x) < tol or err < tol
ModSecantConverged(f_x, err, t) == flt(fabs(f_x), t) \/ flt(err, t)

\* handle calls of one iteration: f(x) and f(x + delta*x)
ModSecantCalls == 2

modified_secant_entry(A, m) ==
    { Out("loop", "none", "none", [i |-> 0, x |-> A.x0, delta |-> A.delta],
          <<>>, <<>>, 0, m, dfm) }

modified_secant_iter(L, it, m) ==
    LET i == L.i + 1
        xp == Perturbed(L.x, L.delta)
    IN  { LET f_x == m2[L.x]
              denom == fsub(m2[xp], f_x)
          IN  IF ModSecantDenominatorZero(denom)
              THEN Out("raised", "ZeroDenominator", "none", [L EXCEPT !.i = i],
                       it, <<>>, ModSecantCalls, m2, dfm)
              ELSE IF denom = 0
              THEN \* float division by zero
                   Out("raised", "ZeroDivisionError", "none", [L EXCEPT !.i = i],
                       it, <<>>, ModSecantCalls, m2, dfm)
              ELSE LET x_new == ModSecantUpdate(L.x, L.delta, f_x, denom)
                       err == fabs(fsub(x_new, L.x))
                       it2 == Append(it, <<i, L.x, f_x, x_new, err>>)
                   IN  IF ModSecantConverged(f_x, err, tol)
                       THEN Out("returned", "none", "converged",
                                [L EXCEPT !.i = i], it2, <<x_new, err, it2>>,
                                ModSecantCalls, m2, dfm)
                       ELSE IF RangeExhausted(i, max_iter)
                       THEN Out("returned", "none", "exhausted",
                                [L EXCEPT !.x = x_new, !.i = i], it2,
                                <<x_new, err, it2>>, ModSecantCalls, m2, dfm)
                       ELSE Out("loop", "none", "none",
                                [L EXCEPT !.x = x_new, !.i = i], it2, <<>>,
                                ModSecantCalls, m2, dfm)
          : m2 \in UNION { Call(m1, xp, FVals) : m1 \in Call(m, L.x, FVals) } }

\* ------------------------------------------------------------------------
\* app.py: the web wrappers.  Their records are dicts; they return
\* (iters, None), or (None, message) where ZOF_CLI.py raises ValueError
\* ------------------------------------------------------------------------
bisection_web_entry(A, m, dm) ==
    { IF fge(fmul(m2[A.a], m2[A.b]), 0)
      THEN WOut("returned", "none", <<>>, <<>>,
                WFail("f(a) and f(b) must have opposite signs."), m2, dm)
      ELSE WOut("loop", "none", [i |-> 0, a |-> A.a, b |-> A.b], <<>>, <<>>, m2, dm)
      : m2 \in UNION { Call(m1, A.b, FVals) : m1 \in Call(m, A.a, FVals) } }

bisection_web_iter(L, it, m, dm) ==
    LET i == L.i + 1
        c == fdiv(fadd(L.a, L.b), Two)
        err == fdiv(fabs(fsub(L.b, L.a)), Two)
    IN  { LET fc == m2[c]
              it2 == Append(it, [i |-> i, a |-> L.a, b |-> L.b, c |-> c,
                                 fc |-> fc, err |-> err])
              keep == flt(fmul(m2[L.a], fc), 0)
              L2 == [i |-> i, a |-> IF keep THEN L.a ELSE c,
                     b |-> IF keep THEN c ELSE L.b]
          IN  IF flt(fabs(fc), tol) \/ flt(err, tol)
              THEN WOut("returned", "none", [L EXCEPT !.i = i], it2, WOk(it2), m2, dm)
              ELSE IF i = max_iter
              THEN WOut("returned", "none", L2, it2, WOk(it2), m2, dm)
              ELSE WOut("loop", "none", L2, it2, <<>>, m2, dm)
          : m2 \in UNION { Call(m1, L.a, FVals) : m1 \in Call(m, c, FVals) } }

regula_falsi_web_entry(A, m, dm) ==
    { IF fge(fmul(m2[A.a], m2[A.b]), 0)
      THEN WOut("returned", "none", <<>>, <<>>,
                WFail("f(a) and f(b) must have opposite signs."), m2, dm)
      ELSE WOut("loop", "none",
                [i |-> 0, a |-> A.a, b |-> A.b, fa |-> m2[A.a], fb |-> m2[A.b],
                 x_old |-> A.a], <<>>, <<>>, m2, dm)
      : m2 \in UNION { Call(m1, A.b, FVals) : m1 \in Call(m, A.a, FVals) } }

regula_falsi_web_iter(L, it, m, dm) ==
    LET i == L.i + 1 IN
    IF fsub(L.fb, L.fa) = 0
    THEN \* float division by zero
         { WOut("raised", "ZeroDivisionError", [L EXCEPT !.i = i], it, <<>>, m, dm) }
    ELSE LET x == fdiv(fsub(fmul(L.a, L.fb), fmul(L.b, L.fa)), fsub(L.fb, L.fa))
             err == fabs(fsub(x, L.x_old))
         IN  { LET fx == m2[x]
                   it2 == Append(it, [i |-> i, a |-> L.a, b |-> L.b, x |-> x,
                                      fx |-> fx, err |-> err])
                   keep == flt(fmul(L.fa, fx), 0)
                   L2 == [i |-> i,
                          a |-> IF keep THEN L.a ELSE x,
                          b |-> IF keep THEN x ELSE L.b,
                          fa |-> IF keep THEN L.fa ELSE fx,
                          fb |-> IF keep THEN fx ELSE L.fb,
                          x_old |-> x]
               IN  IF flt(fabs(fx), tol) \/ flt(err, tol)
                   THEN WOut("returned", "none", [L EXCEPT !.i = i], it2, WOk(it2), m2, dm)
                   ELSE IF i = max_iter
                   THEN WOut("returned", "none", L2, it2, WOk(it2), m2, dm)
                   ELSE WOut("loop", "none", L2, it2, <<>>, m2, dm)
               : m2 \in Call(m, x, FVals) }

secant_web_entry(A, m, dm) ==
    { WOut("loop", "none", [i |-> 0, x0 |-> A.x0, x1 |-> A.x1], <<>>, <<>>, m, dm) }

secant_web_iter(L, it, m, dm) ==
    LET i == L.i + 1 IN
    UNION {
      LET f0 == m2[L.x0]
          f1 == m2[L.x1]
          denom == fsub(f1, f0)
      IN  IF feq(denom, 0)
          THEN { WOut("returned", "none", [L EXCEPT !.i = i], it,
                      WFail("Zero denominator in secant update."), m2, dm) }
          ELSE IF denom = 0
          THEN \* float division by zero
               { WOut("raised", "ZeroDivisionError", [L EXCEPT !.i = i], it, <<>>,
                      m2, dm) }
          ELSE LET x2 == fsub(L.x1, fdiv(fmul(f1, fsub(L.x1, L.x0)), denom))
                   err == fabs(fsub(x2, L.x1))
                   L2 == [i |-> i, x0 |-> L.x1, x1 |-> x2]
               IN  { LET it2 == Append(it, [i |-> i, x0 |-> L.x0, x1 |-> L.x1,
                                            x2 |-> x2, fx2 |-> m3[x2], err |-> err])
                     IN  IF flt(fabs(m3[x2]), tol) \/ flt(err, tol)
                         THEN WOut("returned", "none", [L EXCEPT !.i = i], it2,
                                   WOk(it2), m3, dm)
                         ELSE IF i = max_iter
                         THEN WOut("returned", "none", L2, it2, WOk(it2), m3, dm)
                         ELSE WOut("loop", "none", L2, it2, <<>>, m3, dm)
                     : m3 \in Call(m2, x2, FVals) }
      : m2 \in UNION { Call(m1, L.x1, FVals) : m1 \in Call(m, L.x0, FVals) } }

newton_web_entry(A, m, dm) ==
    { WOut("loop", "none", [i |-> 0, x |-> A.x0], <<>>, <<>>, m, dm) }

newton_web_iter(L, it, m, dm) ==
    LET i == L.i + 1 IN
    UNION {
      { LET fx == m2[L.x]
            dfx == dm2[L.x]
        IN  IF feq(dfx, 0)
            THEN WOut("returned", "none", [L EXCEPT !.i = i], it,
                      WFail("Derivative is zero; Newton method fails."), m2, dm2)
            ELSE IF dfx = 0
            THEN \* float division by zero
                 WOut("raised", "ZeroDivisionError", [L EXCEPT !.i = i], it, <<>>,
                      m2, dm2)
            ELSE LET x_new == fsub(L.x, fdiv(fx, dfx))
                     err == fabs(fsub(x_new, L.x))
                     it2 == Append(it, [i |-> i, x |-> L.x, fx |-> fx, dfx |-> dfx,
                                        x_new |-> x_new, err |-> err])
                 IN  IF flt(fabs(fx), tol) \/ flt(err, tol)
                     THEN WOut("returned", "none", [L EXCEPT !.i = i], it2,
                               WOk(it2), m2, dm2)
                     ELSE IF i = max_iter
                     THEN WOut("returned", "none", [i |-> i, x |-> x_new], it2,
                               WOk(it2), m2, dm2)
                     ELSE WOut("loop", "none", [i |-> i, x |-> x_new], it2, <<>>,
                               m2, dm2)
        : dm2 \in Call(dm, L.x, DFVals) }
      : m2 \in Call(m, L.x, FVals) }

fixed_point_web_entry(A, m, dm) ==
    { WOut("loop", "none", [i |-> 0, x |-> A.x0], <<>>, <<>>, m, dm) }

fixed_point_web_iter(L, it, m, dm) ==
    LET i == L.i + 1 IN
    { LET x_new == m2[L.x]
          err == fabs(fsub(x_new, L.x))
          it2 == Append(it, [i |-> i, x |-> L.x, x_new |-> x_new, err |-> err])
      IN  IF flt(err, tol)
          THEN WOut("returned", "none", [L EXCEPT !.i = i], it2, WOk(it2), m2, dm)
          ELSE IF i = max_iter
          THEN WOut("returned", "none", [i |-> i, x |-> x_new], it2, WOk(it2), m2, dm)
          ELSE WOut("loop", "none", [i |-> i, x |-> x_new], it2, <<>>, m2, dm)
      : m2 \in Call(m, L.x, FVals) }

modified_secant_web_entry(A, m, dm) ==
    { WOut("loop", "none", [i |-> 0, x |-> A.x0, delta |-> A.delta], <<>>, <<>>, m, dm) }

modified_secant_web_iter(L, it, m, dm) ==
    LET i == L.i + 1
        xp == fadd(L.x, fmul(L.delta, L.x))
    IN  { LET f_x == m2[L.x]
              denom == fsub(m2[xp], f_x)
          IN  IF feq(denom, 0)
              THEN WOut("returned", "none", [L EXCEPT !.i = i], it,
                        WFail("Zero denominator in modified secant (bad delta)."),
                        m2, dm)
              ELSE IF denom = 0
              THEN \* float division by zero
                   WOut("raised", "ZeroDivisionError", [L EXCEPT !.i = i], it, <<>>,
                        m2, dm)
              ELSE LET x_new == fsub(L.x, fdiv(fmul(fmul(L.delta, L.x), f_x), denom))
                       err == fabs(fsub(x_new, L.x))
                       it2 == Append(it, [i |-> i, x |-> L.x, f_x |-> f_x,
                                          x_new |-> x_new, err |-> err])
                   IN  IF flt(fabs(f_x), tol) \/ flt(err, tol)
                       THEN WOut("returned", "none", [L EXCEPT !.i = i], it2,
                                 WOk(it2), m2, dm)
                       ELSE IF i = max_iter
                       THEN WOut("returned", "none", [L EXCEPT !.x = x_new, !.i = i],
                                 it2, WOk(it2), m2, dm)
                       ELSE WOut("loop", "none", [L EXCEPT !.x = x_new, !.i = i],
                                 it2, <<>>, m2, dm)
          : m2 \in UNION { Call(m1, xp, FVals) : m1 \in Call(m, L.x, FVals) } }

\* ------------------------------------------------------------------------
\* The actions.  The two routines are called with the same arguments and the
\* same handles and advance together: first ZOF_CLI.py's routine, then its
\* app.py twin, which meets the handle values the first one met.
\* ------------------------------------------------------------------------
CliStays == { Out(status, error, exit, loc, iters, ret, calls, fm, dfm) }
WebStays(m, dm) == { WOut(wstatus, werror, wloc, witers, wret, m, dm) }

\* one step of the pair: o is the outcome of the ZOF_CLI.py routine, w that
\* of its app.py twin
Advance(o, w) ==
    /\ status' = o.status
    /\ error' = o.error
    /\ exit' = o.exit
    /\ loc' = o.loc
    /\ iters' = o.iters
    /\ ret' = o.ret
    /\ calls' = o.calls
    /\ wstatus' = w.status
    /\ werror' = w.error
    /\ wloc' = w.loc
    /\ witers' = w.iters
    /\ wret' = w.ret
    /\ fm' = w.fm
    /\ dfm' = w.dfm
    /\ UNCHANGED <<method, args, tol, max_iter>>

Entering == status = "called" /\ wstatus = "called"
Looping == status = "loop" \/ wstatus = "loop"

bisection ==
    /\ method = "bisection"
    /\ \/ /\ Entering
          /\ \E o \in bisection_entry(args, fm) :
                \E w \in bisection_web_entry(args, o.fm, o.dfm) : Advance(o, w)
       \/ /\ Looping
          /\ \E o \in (IF status = "loop" THEN bisection_iter(loc, iters, fm)
                                          ELSE CliStays) :
                \E w \in (IF wstatus = "loop"
                          THEN bisection_web_iter(wloc, witers, o.fm, o.dfm)
                          ELSE WebStays(o.fm, o.dfm)) : Advance(o, w)

regula_falsi ==
    /\ method = "regula_falsi"
    /\ \/ /\ Entering
          /\ \E o \in regula_falsi_entry(args, fm) :
                \E w \in regula_falsi_web_entry(args, o.fm, o.dfm) : Advance(o, w)
       \/ /\ Looping
          /\ \E o \in (IF status = "loop" THEN regula_falsi_iter(loc, iters, fm)
                                          ELSE CliStays) :
                \E w \in (IF wstatus = "loop"
                          THEN regula_falsi_web_iter(wloc, witers, o.fm, o.dfm)
                          ELSE WebStays(o.fm, o.dfm)) : Advance(o, w)

secant ==
    /\ method = "secant"
    /\ \/ /\ Entering
          /\ \E o \in secant_entry(args, fm) :
                \E w \in secant_web_entry(args, o.fm, o.dfm) : Advance(o, w)
       \/ /\ Looping
          /\ \E o \in (IF status = "loop" THEN secant_iter(loc, iters, fm)
                                          ELSE CliStays) :
                \E w \in (IF wstatus = "loop"
                          THEN secant_web_iter(wloc, witers, o.fm, o.dfm)
                          ELSE WebStays(o.fm, o.dfm)) : Advance(o, w)

newton_raphson ==
    /\ method = "newton_raphson"
    /\ \/ /\ Entering
          /\ \E o \in newton_raphson_entry(args, fm) :
                \E w \in newton_web_entry(args, o.fm, o.dfm) : Advance(o, w)
       \/ /\ Looping
          /\ \E o \in (IF status = "loop" THEN newton_raphson_iter(loc, iters, fm, dfm)
                                          ELSE CliStays) :
                \E w \in (IF wstatus = "loop"
                          THEN newton_web_iter(wloc, witers, o.fm, o.dfm)
                          ELSE WebStays(o.fm, o.dfm)) : Advance(o, w)

fixed_point ==
    /\ method = "fixed_point"
    /\ \/ /\ Entering
          /\ \E o \in fixed_point_entry(args, fm) :
                \E w \in fixed_point_web_entry(args, o.fm, o.dfm) : Advance(o, w)
       \/ /\ Looping
          /\ \E o \in (IF status = "loop" THEN fixed_point_iter(loc, iters, fm)
                                          ELSE CliStays) :
                \E w \in (IF wstatus = "loop"
                          THEN fixed_point_web_iter(wloc, witers, o.fm, o.dfm)
                          ELSE WebStays(o.fm, o.dfm)) : Advance(o, w)

modified_secant ==
    /\ method = "modified_secant"
    /\ \/ /\ Entering
          /\ \E o \in modified_secant_entry(args, fm) :
                \E w \in modified_secant_web_entry(args, o.fm, o.dfm) : Advance(o, w)
       \/ /\ Looping
          /\ \E o \in (IF status = "loop" THEN modified_secant_iter(loc, iters, fm)
                                          ELSE CliStays) :
                \E w \in (IF wstatus = "loop"
                          THEN modified_secant_web_iter(wloc, witers, o.fm, o.dfm)
                          ELSE WebStays(o.fm, o.dfm)) : Advance(o, w)

Next ==
    \/ bisection
    \/ regula_falsi
    \/ secant
    \/ newton_raphson
    \/ fixed_point
    \/ modified_secant

Spec == Init /\ [][Next]_vars

\* ------------------------------------------------------------------------
\* Properties
\* ------------------------------------------------------------------------
Returned == status = "returned"
\* a loop iteration of the ZOF_CLI.py routine has run
IterationRan == status \in {"loop", "returned", "raised"} /\ error # "InvalidBracket"
                /\ loc.i >= 1
Last(s) == s[Len(s)]
Bracketing == method \in {"bisection", "regula_falsi"}
Checked == Bracketing /\ status # "called"
\* f(a)*f(b) < 0 at the arguments
ValidBracket == Checked /\ flt(fmul(fm[args.a], fm[args.b]), 0)
Lo == IF args.a <= args.b THEN args.a ELSE args.b
Hi == IF args.a <= args.b THEN args.b ELSE args.a
InOriginal(x) == x \in Finite /\ Lo <= x /\ x <= Hi

\* C1: a call that returns hands back between 1 and max_iter records, and
\* the k-th record carries the index k.
C1_TraceLength ==
    Returned =>
        /\ Len(ret[3]) >= 1
        /\ Len(ret[3]) <= max_iter
        /\ \A k \in 1..Len(ret[3]) : ret[3][k][1] = k
C1_Witness == Returned /\ max_iter >= 2 /\ Len(ret[3]) = max_iter

\* C2: from a bracket with f(a)*f(b) < 0, bisection and regula_falsi keep
\* every bracket inside [min(a,b), max(a,b)] and return a root inside it.
C2_RootInBracket ==
    (ValidBracket /\ status \in {"loop", "returned"}) =>
        /\ InOriginal(loc.a)
        /\ InOriginal(loc.b)
        /\ Returned => InOriginal(ret[1])

\* the midpoint and the width of a bisection record were computed exactly
ExactStep(r) ==
    /\ r[2] \in Finite /\ r[3] \in Finite /\ r[4] \in Finite
    /\ 2 * r[4] = r[2] + r[3]
    /\ fsub(r[3], r[2]) = r[3] - r[2]

\* C3 (as claimed): the first bisection error is abs(b-a)/2.0 of the
\* original bracket and every later one is half the one before it.
C3_ErrorHalves ==
    method = "bisection" =>
        \A k \in 1..Len(iters) :
            IF k = 1
            THEN iters[1][6] = fdiv(fabs(fsub(args.b, args.a)), Two)
            ELSE iters[k][6] = fdiv(iters[k - 1][6], Two)
\* C3 (amended): the first bisection error is abs(b-a)/2.0 of the original
\* bracket, and an error is half the one before it whenever the step before
\* computed its midpoint and its width exactly.
C3_ErrorHalvesWhenExact ==
    method = "bisection" =>
        \A k \in 1..Len(iters) :
            IF k = 1
            THEN iters[1][6] = fdiv(fabs(fsub(args.b, args.a)), Two)
            ELSE ExactStep(iters[k - 1]) => iters[k][6] = fdiv(iters[k - 1][6], Two)
C3_Witness ==
    /\ method = "bisection"
    /\ Len(iters) >= 2
    /\ ExactStep(iters[1])
    /\ iters[2][6] > 0
    /\ 2 * iters[2][6] = iters[1][6]

\* the denominator of the recorded iteration r was zero
RecordedZero(r) ==
    IF method = "secant" THEN fsub(fm[r[3]], fm[r[2]]) = 0
    ELSE IF method = "newton_raphson" THEN r[4] = 0
    ELSE fsub(fm[fadd(r[2], fmul(args.delta, r[2]))], r[3]) = 0
ZeroError == error \in {"ZeroDenominator", "ZeroDerivative"}
Open3 == method \in {"secant", "newton_raphson", "modified_secant"}
\* the part of C4 that holds as claimed
C4_Core ==
    Open3 =>
        /\ (status = "raised" /\ ZeroError) =>
              /\ ret = <<>>
              /\ Len(iters) = loc.i - 1
              /\ error = (IF method = "newton_raphson" THEN "ZeroDerivative"
                          ELSE "ZeroDenominator")
        /\ \A k \in 1..Len(iters) : ~RecordedZero(iters[k])
        /\ error # "ZeroDivisionError"
\* C4 (as claimed): a zero denominator or derivative aborts secant,
\* newton_raphson and modified_secant with their error and nothing else, at
\* any iteration, before the record of that iteration exists; a call of
\* modified_secant with delta == 0 is such a call, at its seed.
C4_ZeroAborts ==
    /\ C4_Core
    /\ (method = "modified_secant" /\ args.delta = 0 /\ IterationRan) =>
          (status = "raised" /\ error = "ZeroDenominator" /\ iters = <<>>)
\* C4 (amended): the same, but delta == 0 aborts modified_secant at the seed
\* only when f(x0) is a finite number (x0 is finite).
C4_ZeroAbortsFinite ==
    /\ C4_Core
    /\ (method = "modified_secant" /\ args.delta = 0 /\ IterationRan
        /\ fm[args.x0] \in Finite) =>
          (status = "raised" /\ error = "ZeroDenominator" /\ iters = <<>>)
C4_Witness ==
    /\ method = "secant"
    /\ status = "raised"
    /\ error = "ZeroDenominator"
    /\ loc.i = 2
    /\ Len(iters) = 1

\* C5: bisection and regula_falsi raise the invalid-bracket error exactly
\* when f(a)*f(b) < 0 does not hold, before any record exists.
C5_BracketErrorIff ==
    Checked =>
        /\ (error = "InvalidBracket") <=> ~flt(fmul(fm[args.a], fm[args.b]), 0)
        /\ (error = "InvalidBracket") => (iters = <<>> /\ ret = <<>>)

\* the newest estimate of a record of a routine other than bisection
Estimate(r) ==
    IF method \in {"regula_falsi", "secant", "modified_secant"} THEN r[4]
    ELSE IF method = "newton_raphson" THEN r[5]
    ELSE r[3]
\* the part of C6 that holds as claimed
C6_Core ==
    /\ (status # "called" /\ error = "none" /\ Len(iters) = max_iter) => Returned
    /\ exit = "exhausted" =>
          /\ Returned
          /\ ret[3] = iters
          /\ Len(iters) = max_iter
          /\ IF method = "bisection"
             THEN /\ ret[1] = fdiv(fadd(loc.a, loc.b), Two)
                  /\ ret[2] = fdiv(fabs(fsub(loc.b, loc.a)), Two)
                  /\ \/ loc.a = Last(iters)[2] /\ loc.b = Last(iters)[4]
                     \/ loc.a = Last(iters)[4] /\ loc.b = Last(iters)[3]
             ELSE /\ ret[1] = Estimate(Last(iters))
                  /\ ret[2] = Last(Last(iters))
NewtonStop(r) == flt(fabs(r[3]), tol) \/ flt(r[6], tol)
C8_NewtonPreUpdateTest ==
    method = "newton_raphson" =>
        /\ \A k \in 1..Len(iters) :
              /\ iters[k][3] = fm[iters[k][2]]
              /\ iters[k][4] = dfm[iters[k][2]]
              /\ iters[k][5] = fsub(iters[k][2], fdiv(iters[k][3], iters[k][4]))
              /\ iters[k][6] = fabs(fsub(iters[k][5], iters[k][2]))
              /\ k < Len(iters) => ~NewtonStop(iters[k])
        /\ (Len(iters) >= 1 /\ NewtonStop(Last(iters))) =>
              (exit = "converged" /\ ret = <<Last(iters)[5], Last(iters)[6], iters>>)
        /\ (Len(iters) >= 1 /\ ~NewtonStop(Last(iters))) => exit # "converged"
        /\ (IterationRan /\ flt(fabs(fm[args.x0]), tol) /\ dfm[args.x0] # 0) =>
              /\ Returned
              /\ Len(ret[3]) = 1
              /\ ret[1] = fsub(args.x0, fdiv(fm[args.x0], dfm[args.x0]))
C8_Witness ==
    /\ method = "newton_raphson"
    /\ Returned
    /\ Len(iters) = 1
    /\ flt(fabs(fm[args.x0]), tol)
    /\ ~flt(iters[1][6], tol)
    /\ ret[1] # args.x0

\* every value the handle has returned is a finite number
FiniteHandle == \A x \in DOMAIN fm : fm[x] \in Finite
\* C9: in regula_falsi, from a valid bracket, every iteration starts with
\* fa = f(a), fb = f(b) of opposite signs, so the division never fails.
\* Stated for the handles that return finite numbers only: a NaN breaks it
\* at once, and the claim fails without one.
C9_CarriedSigns ==
    (method = "regula_falsi" /\ ValidBracket /\ FiniteHandle) =>
        /\ error # "ZeroDivisionError"
        /\ status = "loop" =>
              /\ loc.fa = fm[loc.a]
              /\ loc.fb = fm[loc.b]
              /\ loc.fa \in Floats \ {NaN} /\ loc.fb \in Floats \ {NaN}
              /\ Sgn(loc.fa) * Sgn(loc.fb) < 0

\* the fields of a web record, in the order of the ZOF_CLI.py tuple
AsTuple(d) ==
    IF method = "bisection" THEN <<d.i, d.a, d.b, d.c, d.fc, d.err>>
    ELSE IF method = "regula_falsi" THEN <<d.i, d.a, d.b, d.x, d.fx, d.err>>
    ELSE IF method = "secant" THEN <<d.i, d.x0, d.x1, d.x2, d.fx2, d.err>>
    ELSE IF method = "newton_raphson" THEN <<d.i, d.x, d.fx, d.dfx, d.x_new, d.err>>
    ELSE IF method = "fixed_point" THEN <<d.i, d.x, d.x_new, d.err>>
    ELSE <<d.i, d.x, d.f_x, d.x_new, d.err>>
WebOk == wstatus = "returned" /\ wret.msg = "None"
WebFailed == wstatus = "returned" /\ wret.msg # "None"
=============================================================================
